---- MODULE Spec2Model ----
(***************************************************************************)
(* Model of the React codebase RAG repository:                             *)
(*   - the API server (server.ts: /search, /component, /answer),           *)
(*   - the command-line search (react-codebase-rag/src/search.ts),         *)
(*   - the embedding provider (react-codebase-rag/src/embeddings.ts),      *)
(*   - the indexing run (react-codebase-rag/src/indexer.ts).               *)
(*                                                                         *)
(* Conventions.  A string is a sequence of characters (1-character TLA+    *)
(* strings); a file path is a sequence of path tokens whose concatenation  *)
(* is the path, so that String.includes is a contiguous-subsequence test.  *)
(* A JS number is a record [nan, num, den]: NaN, or the rational num/den   *)
(* in lowest terms with den > 0.  An absent query parameter and an empty   *)
(* one are both the empty sequence: the code reads both with `x || dflt`.  *)
(***************************************************************************)
EXTENDS Integers, Sequences, FiniteSets, TLC

(***************************************************************************)
(* Bounds of the model.                                                    *)
(***************************************************************************)
\* longest index the server loads
MaxIndex == 3
\* longest batch handed to embed(texts)
MaxTexts == 2
\* most files in one indexing run
MaxFiles == 2
\* declarations in one source file
MaxNodes == 2

(***************************************************************************)
(* JS numbers.                                                             *)
(***************************************************************************)
Abs(x) == IF x < 0 THEN -x ELSE x

Sign(x) == IF x < 0 THEN -1 ELSE IF x > 0 THEN 1 ELSE 0

RECURSIVE Gcd(_, _)
Gcd(a, b) == IF b = 0 THEN a ELSE Gcd(b, a % b)

NaN == [nan |-> TRUE, num |-> 0, den |-> 1]

\* the number n/d (d # 0), in lowest terms
Rat(n, d) ==
  LET g == Gcd(Abs(n), Abs(d))
      s == IF d < 0 THEN -1 ELSE 1
  IN  [nan |-> FALSE, num |-> s * (n \div g), den |-> s * (d \div g)]

Num(n) == Rat(n, 1)

IsNaN(x) == x.nan

IsInteger(x) == ~x.nan /\ x.den = 1

\* x < y, false when either is NaN
NumLt(x, y) == ~x.nan /\ ~y.nan /\ x.num * y.den < y.num * x.den

NumLe(x, y) == ~x.nan /\ ~y.nan /\ x.num * y.den <= y.num * x.den

NumSub(x, y) ==
  IF x.nan \/ y.nan THEN NaN
  ELSE Rat(x.num * y.den - y.num * x.den, x.den * y.den)

\* x / y for y # 0
NumDiv(x, y) ==
  IF x.nan \/ y.nan THEN NaN ELSE Rat(x.num * y.den, x.den * y.num)

\* Math.max and Math.min: NaN when either argument is NaN
MathMax(x, y) == IF x.nan \/ y.nan THEN NaN ELSE IF NumLt(x, y) THEN y ELSE x

MathMin(x, y) == IF x.nan \/ y.nan THEN NaN ELSE IF NumLt(y, x) THEN y ELSE x

\* ToIntegerOrInfinity: NaN becomes 0, a fraction is truncated toward zero
ToIntegerOrInfinity(x) ==
  IF x.nan THEN 0
  ELSE IF x.num >= 0 THEN x.num \div x.den ELSE -((-x.num) \div x.den)

\* the square root of a perfect square
Sqrt(n) == CHOOSE r \in 0..n : r * r = n

RECURSIVE Pow10(_)
Pow10(k) == IF k = 0 THEN 1 ELSE 10 * Pow10(k - 1)

(***************************************************************************)
(* Strings and arrays.                                                     *)
(***************************************************************************)
Digits == <<"0", "1", "2", "3", "4", "5", "6", "7", "8", "9">>

IsDigit(c) == \E i \in 1..10 : Digits[i] = c

DigitVal(c) == (CHOOSE i \in 1..10 : Digits[i] = c) - 1

IsSpace(c) == c = " "

RECURSIVE TrimStart(_)
TrimStart(s) ==
  IF s # <<>> /\ IsSpace(Head(s)) THEN TrimStart(Tail(s)) ELSE s

RECURSIVE TrimEnd(_)
TrimEnd(s) ==
  IF s # <<>> /\ IsSpace(s[Len(s)]) THEN TrimEnd(SubSeq(s, 1, Len(s) - 1)) ELSE s

\* String.prototype.trim
Trim(s) == TrimEnd(TrimStart(s))

\* the value of a run of decimal digits
RECURSIVE DigitsValue(_)
DigitsValue(s) ==
  IF s = <<>> THEN 0
  ELSE 10 * DigitsValue(SubSeq(s, 1, Len(s) - 1)) + DigitVal(s[Len(s)])

AllDigits(s) == \A i \in 1..Len(s) : IsDigit(s[i])

\* an unsigned decimal literal: digits, optionally "." and digits
UnsignedLiteral(s) ==
  IF s = <<>> THEN NaN
  ELSE IF \E i \in 1..Len(s) : s[i] = "."
  THEN LET dot == CHOOSE i \in 1..Len(s) : s[i] = "."
           ip  == SubSeq(s, 1, dot - 1)
           fp  == SubSeq(s, dot + 1, Len(s))
       IN  IF AllDigits(ip) /\ AllDigits(fp) /\ Len(ip) + Len(fp) > 0
           THEN Rat(DigitsValue(ip) * Pow10(Len(fp)) + DigitsValue(fp), Pow10(Len(fp)))
           ELSE NaN
  ELSE IF AllDigits(s) THEN Num(DigitsValue(s)) ELSE NaN

\* Number(string): surrounding white space ignored, "" is 0, an optional
\* sign, a decimal literal; anything else is NaN
StringToNumber(str) ==
  LET s == Trim(str)
  IN  IF s = <<>> THEN Num(0)
      ELSE IF Head(s) = "-"
           THEN LET u == UnsignedLiteral(Tail(s))
                IN  IF u.nan THEN NaN ELSE Rat(-u.num, u.den)
      ELSE IF Head(s) = "+" THEN UnsignedLiteral(Tail(s))
      ELSE UnsignedLiteral(s)

\* String.prototype.includes on token sequences
Includes(s, pat) ==
  \E i \in 1..(Len(s) - Len(pat) + 1) : SubSeq(s, i, i + Len(pat) - 1) = pat

\* Array.prototype.slice(0, end): end is made an integer (NaN is 0), a
\* negative end counts from the end of the array
Slice0(arr, end) ==
  LET e == ToIntegerOrInfinity(end)
      k == IF e < 0 THEN (IF Len(arr) + e < 0 THEN 0 ELSE Len(arr) + e)
           ELSE IF e > Len(arr) THEN Len(arr) ELSE e
  IN  SubSeq(arr, 1, k)

Reverse(s) == [i \in 1..Len(s) |-> s[Len(s) + 1 - i]]

RECURSIVE Sum(_)
Sum(s) == IF s = <<>> THEN 0 ELSE Head(s) + Sum(Tail(s))

\* String.prototype.localeCompare on names made of upper-case letters
Letters == <<"A", "B", "C", "D", "E", "F">>

LetterRank(c) == CHOOSE i \in 1..Len(Letters) : Letters[i] = c

RECURSIVE localeCompare(_, _)
localeCompare(a, b) ==
  IF a = <<>> /\ b = <<>> THEN 0
  ELSE IF a = <<>> THEN -1
  ELSE IF b = <<>> THEN 1
  ELSE IF LetterRank(Head(a)) < LetterRank(Head(b)) THEN -1
  ELSE IF LetterRank(Head(a)) > LetterRank(Head(b)) THEN 1
  ELSE localeCompare(Tail(a), Tail(b))

(***************************************************************************)
(* Array.prototype.sort as Node's V8 runs it on an array of fewer than 64  *)
(* elements: one run is counted (and reversed when strictly descending),   *)
(* then extended over the whole array by binary insertion.  A comparator   *)
(* result of NaN counts as 0.  With a consistent comparator this is a      *)
(* stable sort; with NaN scores it is what the engine does.                *)
(***************************************************************************)
\* the comparators the repository sorts with, as sort reads their result:
\* "score" is (a, b) => b.score - a.score,
\* "name" is (a, b) => a.name.localeCompare(b.name)
Compare(cmp, a, b) ==
  IF cmp = "score"
  THEN LET v == NumSub(b.score, a.score) IN IF v.nan THEN 0 ELSE Sign(v.num)
  ELSE localeCompare(a.name, b.name)

RECURSIVE RunEnd(_, _, _, _)
RunEnd(work, cmp, desc, idx) ==
  IF idx > Len(work) THEN idx - 1
  ELSE LET order == Compare(cmp, work[idx], work[idx - 1])
       IN  IF (desc /\ order >= 0) \/ (~desc /\ order < 0) THEN idx - 1
           ELSE RunEnd(work, cmp, desc, idx + 1)

RECURSIVE BinarySearch(_, _, _, _, _)
BinarySearch(work, cmp, pivot, left, right) ==
  IF left >= right THEN left
  ELSE LET mid == left + ((right - left) \div 2)
       IN  IF Compare(cmp, pivot, work[mid]) < 0
           THEN BinarySearch(work, cmp, pivot, left, mid)
           ELSE BinarySearch(work, cmp, pivot, mid + 1, right)

RECURSIVE BinaryInsertionSort(_, _, _)
BinaryInsertionSort(work, cmp, start) ==
  IF start > Len(work) THEN work
  ELSE LET pivot == work[start]
           left  == BinarySearch(work, cmp, pivot, 1, start)
           moved == SubSeq(work, 1, left - 1) \o <<pivot>>
                    \o SubSeq(work, left, start - 1)
                    \o SubSeq(work, start + 1, Len(work))
       IN  BinaryInsertionSort(moved, cmp, start + 1)

ArraySort(arr, cmp) ==
  IF Len(arr) < 2 THEN arr
  ELSE LET desc == Compare(cmp, arr[2], arr[1]) < 0
           run  == RunEnd(arr, cmp, desc, 3)
           made == IF desc
                   THEN Reverse(SubSeq(arr, 1, run)) \o SubSeq(arr, run + 1, Len(arr))
                   ELSE arr
       IN  BinaryInsertionSort(made, cmp, run + 1)

\* .sort((a, b) => b.score - a.score)
SortByScore(arr) == ArraySort(arr, "score")

(***************************************************************************)
(* server.ts: constants.                                                   *)
(***************************************************************************)
\* /search: Math.min(50, Math.max(1, Number(req.query.topK || 5)))
SearchMaxK == 50
SearchDefaultK == 5
\* /answer: Math.min(6, Math.max(1, Number(req.query.topK || 4)))
AnswerMaxK == 6
AnswerDefaultK == 4
MinK == 1
\* r.code.split("\n").slice(0, 18)
PreviewLines == 18
\* truncateCode(r.code, 700)
ContextMaxChars == 700
\* GEN_OPTIONS.num_ctx: cap prompt context
NumCtx == 1024

(***************************************************************************)
(* server.ts: pure helpers.                                                *)
(***************************************************************************)
\* a.reduce((s, v, i) => s + v * b[i], 0): b[i] is undefined past the end of
\* b, and a number times undefined is NaN
RECURSIVE DotOver(_, _, _)
DotOver(a, b, i) ==
  IF i > Len(a) THEN 0 ELSE a[i] * b[i] + DotOver(a, b, i + 1)

SumSquares(a) == Sum([i \in 1..Len(a) |-> a[i] * a[i]])

cosine(a, b) ==
  IF Len(b) < Len(a) THEN NaN
  ELSE LET dot == DotOver(a, b, 1)
           na  == Sqrt(SumSquares(a))
           nb  == Sqrt(SumSquares(b))
       IN  Rat(dot, IF na * nb = 0 THEN 1 ELSE na * nb)

\* a text is the sequence of the lengths of its lines; its length counts
\* the newline between two lines
CodeLength(code) == Sum(code) + Len(code) - 1

\* code.slice(0, n)
RECURSIVE SliceChars(_, _)
SliceChars(code, n) ==
  IF Head(code) >= n THEN <<n>>
  ELSE IF Len(code) = 1 THEN code
  ELSE <<Head(code)>> \o SliceChars(Tail(code), n - Head(code) - 1)

truncateCode(code, maxChars) ==
  IF CodeLength(code) <= maxChars
  THEN [text |-> code, marker |-> FALSE]
  ELSE [text |-> SliceChars(code, maxChars), marker |-> TRUE]

\* r.code.split("\n").slice(0, 18).join("\n")
Preview(code) == SubSeq(code, 1, IF Len(code) < PreviewLines THEN Len(code) ELSE PreviewLines)

\* const topK = Math.min(max, Math.max(1, Number(req.query.topK || dflt)))
ClampTopK(param, dflt, max) ==
  MathMin(Num(max), MathMax(Num(MinK), IF param = <<>> THEN Num(dflt) ELSE StringToNumber(param)))

\* String(req.query.scope || "all")
ScopeOf(param) == IF param = "" THEN "all" ELSE param

\* c.file.includes("examples/")
InExamples(c) == Includes(c.file, <<"examples", "/">>)

\* c.file.includes("packages/react-router") ||
\* c.file.includes("packages/react-router-dom")
InSrc(c) ==
  \/ Includes(c.file, <<"packages", "/", "react-router">>)
  \/ Includes(c.file, <<"packages", "/", "react-router", "-dom">>)

\* the scope branch for "src" left out
ScopePoolNoSrc(index, scope) ==
  IF scope = "examples" THEN SelectSeq(index, InExamples) ELSE index

\* let pool = INDEX; if (scope === "examples") ... else if (scope === "src") ...
ScopePool(index, scope) ==
  IF scope = "examples" THEN SelectSeq(index, InExamples)
  ELSE IF scope = "src" THEN SelectSeq(index, InSrc)
  ELSE index

\* `let pool = INDEX`: without a scope filter pool is the array INDEX itself
PoolIsIndex(scope) == scope \notin {"examples", "src"}

\* the records of pool put in score order in the array itself
PoolSortedInPlace(pool, qv) ==
  LET scored == [i \in 1..Len(pool) |->
                  [name |-> pool[i].name, file |-> pool[i].file, code |-> pool[i].code,
                   embedding |-> pool[i].embedding,
                   score |-> cosine(qv, pool[i].embedding)]]
      sorted == SortByScore(scored)
  IN  [i \in 1..Len(pool) |->
        [name |-> sorted[i].name, file |-> sorted[i].file, code |-> sorted[i].code,
         embedding |-> sorted[i].embedding]]

\* the array pool refers to after the ranking: map builds a new array of new
\* objects, and sort, which works in place, and slice are applied to that one
PoolAfterRank(pool, qv) == pool

\* pool.map(c => ({...c, score})).sort((a, b) => b.score - a.score).slice(0, topK)
Rank(pool, qv, topK) ==
  LET scored == [i \in 1..Len(pool) |->
                  [name |-> pool[i].name, file |-> pool[i].file, code |-> pool[i].code,
                   embedding |-> pool[i].embedding,
                   score |-> cosine(qv, pool[i].embedding)]]
  IN  Slice0(SortByScore(scored), topK)

\* .map(r => ({name, file, score, preview}))
SearchResults(ranked) ==
  [i \in 1..Len(ranked) |->
    [name |-> ranked[i].name, file |-> ranked[i].file, score |-> ranked[i].score,
     preview |-> Preview(ranked[i].code)]]

\* the context blocks of the prompt, "### Context i: name -- file" and the
\* truncated code, joined in ranked order
Context(ranked) ==
  [i \in 1..Len(ranked) |->
    [n |-> i, name |-> ranked[i].name, file |-> ranked[i].file,
     code |-> truncateCode(ranked[i].code, ContextMaxChars)]]

\* the provenance list cut to the records ahead of the last one
UsedWithoutLast(ranked) ==
  [i \in 1..(Len(ranked) - 1) |->
    [name |-> ranked[i].name, file |-> ranked[i].file, score |-> ranked[i].score]]

\* used: ranked.map(r => ({name, file, score}))
Used(ranked) ==
  [i \in 1..Len(ranked) |->
    [name |-> ranked[i].name, file |-> ranked[i].file, score |-> ranked[i].score]]

\* a failed call answered with a substitute vector instead of an error
ollamaEmbedFallback(outcome, vec) ==
  [ok |-> TRUE, value |-> IF outcome = "ok" THEN vec ELSE <<0, 0>>, error |-> ""]

\* what ollamaEmbed does with the backend's reply: it returns the embedding
\* or throws
ollamaEmbed(outcome, vec) ==
  IF outcome = "ok" THEN [ok |-> TRUE, value |-> vec, error |-> ""]
  ELSE IF outcome = "http_error"
       THEN [ok |-> FALSE, value |-> <<>>, error |-> "embed failed"]
  ELSE IF outcome = "no_embedding"
       THEN [ok |-> FALSE, value |-> <<>>, error |-> "No embedding array in response"]
  ELSE IF outcome = "bad_json"
       THEN [ok |-> FALSE, value |-> <<>>, error |-> "invalid json"]
  ELSE [ok |-> FALSE, value |-> <<>>, error |-> "fetch failed"]

\* what ollamaGenerate does with the backend's reply: (json.response || "").trim(),
\* or it throws
ollamaGenerate(outcome, text) ==
  IF outcome = "ok" THEN [ok |-> TRUE, value |-> Trim(text), error |-> ""]
  ELSE IF outcome = "no_response" THEN [ok |-> TRUE, value |-> <<>>, error |-> ""]
  ELSE IF outcome = "http_error"
       THEN [ok |-> FALSE, value |-> <<>>, error |-> "generate failed"]
  ELSE IF outcome = "bad_json"
       THEN [ok |-> FALSE, value |-> <<>>, error |-> "invalid json"]
  ELSE [ok |-> FALSE, value |-> <<>>, error |-> "fetch failed"]

(***************************************************************************)
(* State.                                                                  *)
(***************************************************************************)
VARIABLES
  \* server.ts
  INDEX,         \* the loaded index
  pc,            \* per request: "idle", "embedWait", "genWait", "done"
  req,           \* per request: the route and the raw query parameters
  pool,          \* per request: the scoped pool
  ranked,        \* per request: the ranked records (/answer keeps them)
  prompt,        \* per request: the prompt sent to the generation backend
  resp,          \* per request: the response sent
  embedCalls,    \* per request: calls issued to the embedding backend
  genCalls,      \* per request: calls issued to the generation backend
  embedOutcome,  \* per request: how the embedding backend replied
  genOutcome,    \* per request: how the generation backend replied
  aborted,       \* per request: withTimeout's timer has fired, ac.abort() ran
  \* search.ts (command line)
  cliPc,         \* "start", "embedWait", "exit"
  cliArgv,       \* process.argv.slice(2)
  cliFile,       \* data/index.json as found on disk
  cliComponents, \* what loadComponents returned
  cliEmbedCalls, \* calls issued to the embedding backend
  cliResults,    \* the ranked results printed
  cliExit,       \* the exit code, -1 while running
  \* embeddings.ts
  emPc,          \* "start", "ollamaWait", "openaiWait", "done"
  emEnv,         \* EMBEDDINGS_PROVIDER, OPENAI_API_KEY, the openai module
  emDim,         \* width of the vectors the configured backend returns
  emTexts,       \* the argument of embed
  emReplies,     \* how the backend replied to each call so far
  emOut,         \* the vectors collected so far, at "done" the result
  \* indexer.ts
  ixPc,          \* "start", "embedWait", "exit"
  ixFiles,       \* the files fast-glob listed
  ixFile,        \* position in ixFiles of the file at hand
  ixComps,       \* components extracted from the file at hand
  ixComp,        \* position in ixComps of the component being embedded
  ixAll,         \* the records collected so far
  ixWarned,      \* components whose embedding failed
  ixWritten,     \* data/index.json: whether it was written, and its records
  \* server.ts at start-up
  srvFile,       \* data/index.json as found on disk
  srvPc,         \* "start", "listening", "exit"
  \* the extractor that builds ComponentInfo records
  exPc,          \* "start", "done"
  exFile,        \* the file extractComponents is called for
  exOut,         \* the records it returned
  \* DevGuideExplorer.tsx
  uiPc,          \* "rendered" before the mount effect has run, then "mounted"
  uiSearching,   \* the state `searching`
  uiAnswering,   \* the state `answering`
  uiSearches,    \* calls of doSearch waiting for the server
  uiAnswers,     \* calls of doAnswer waiting for the server
  uiResults,     \* the state `results`
  uiAnswer,      \* the states `answer` and `used`
  uiError        \* the state `error`

serverVars == <<INDEX, pc, req, pool, ranked, prompt, resp, embedCalls, genCalls,
                embedOutcome, genOutcome, aborted>>

cliVars == <<cliPc, cliArgv, cliFile, cliComponents, cliEmbedCalls, cliResults, cliExit>>

embedVars == <<emPc, emEnv, emDim, emTexts, emReplies, emOut>>

indexerVars == <<ixPc, ixFiles, ixFile, ixComps, ixComp, ixAll, ixWarned, ixWritten>>

loadVars == <<srvFile, srvPc>>

extractVars == <<exPc, exFile, exOut>>

uiVars == <<uiPc, uiSearching, uiAnswering, uiSearches, uiAnswers, uiResults, uiAnswer,
            uiError>>

vars == <<serverVars, cliVars, embedVars, indexerVars, loadVars, extractVars, uiVars>>

(***************************************************************************)
(* Inputs of the server model.                                             *)
(***************************************************************************)
Requests == {1}

\* records an index file can hold: two share a name, two tie on every
\* query, one lies under both scopes, one under "myexamples/", one has a
\* shorter embedding, one has code longer than the context cap
Catalog ==
  { [name |-> <<"A">>, file |-> <<"examples", "/", "App.tsx">>,
     code |-> <<10, 4>>, embedding |-> <<1, 0>>],
    [name |-> <<"B">>, file |-> <<"packages", "/", "react-router", "/", "index.tsx">>,
     code |-> <<400, 400>>, embedding |-> <<1, 0>>],
    [name |-> <<"B">>, file |-> <<"packages", "/", "react-router", "-dom", "/", "examples", "/", "x.tsx">>,
     code |-> <<7>>, embedding |-> <<3, 4>>],
    [name |-> <<"C">>, file |-> <<"docs", "/", "C.tsx">>,
     code |-> <<0>>, embedding |-> <<0, 0>>],
    [name |-> <<"D">>, file |-> <<"my", "examples", "/", "D.tsx">>,
     code |-> <<700>>, embedding |-> <<1>>] }

Injective(f) == \A i, j \in DOMAIN f : i # j => f[i] # f[j]

\* the indexer writes the records sorted by name (all.sort by localeCompare)
SortedByName(f) ==
  \A i, j \in DOMAIN f : i < j => localeCompare(f[i].name, f[j].name) <= 0

IndexFiles ==
  { f \in UNION { [1..n -> Catalog] : n \in 0..MaxIndex } :
      Injective(f) /\ SortedByName(f) }

Queries == { <<>>, <<" ">>, <<"n">>, <<" ", "n">> }

TopKParams ==
  { <<>>, <<"0">>, <<"-", "3">>, <<"2">>, <<"2", ".", "5">>, <<"1", "0", "0">>,
    <<"a", "b", "c">> }

ScopeParams == { "", "examples", "src", "docs" }

\* vectors the embedding backend returns for a query
QueryVectors == { <<1, 0>>, <<0, 1>>, <<4, 3>>, <<0, 0>> }

EmbedFailures == { "http_error", "network_error", "bad_json", "no_embedding" }

GenFailures == { "http_error", "network_error", "bad_json" }

\* the "response" text of the generation backend
GenTexts == { <<"a", " ">> }

NoResp ==
  [status |-> 0, error |-> "", query |-> <<>>, count |-> 0, results |-> <<>>,
   scope |-> "", used |-> <<>>, answer |-> <<>>, hasAnswer |-> FALSE, code |-> <<>>]

NoReq == [route |-> "", q |-> <<>>, topK |-> <<>>, scope |-> "", name |-> <<>>, file |-> <<>>]

NoPrompt == [question |-> <<>>, context |-> <<>>]

\* the server holding `index`, no request of the clients rs under way
ServerState(index, rs) ==
  /\ INDEX = index
  /\ pc = [r \in rs |-> "idle"]
  /\ req = [r \in rs |-> NoReq]
  /\ pool = [r \in rs |-> <<>>]
  /\ ranked = [r \in rs |-> <<>>]
  /\ prompt = [r \in rs |-> NoPrompt]
  /\ resp = [r \in rs |-> NoResp]
  /\ embedCalls = [r \in rs |-> 0]
  /\ genCalls = [r \in rs |-> 0]
  /\ embedOutcome = [r \in rs |-> "none"]
  /\ genOutcome = [r \in rs |-> "none"]
  /\ aborted = [r \in rs |-> FALSE]

\* the server with one client
ServerIdle(index) == ServerState(index, Requests)

\* the command-line search not started
CliIdle ==
  /\ cliPc = "start"
  /\ cliArgv = <<>>
  /\ cliFile = [exists |-> FALSE]
  /\ cliComponents = <<>>
  /\ cliEmbedCalls = 0
  /\ cliResults = <<>>
  /\ cliExit = -1

\* embed not called
EmbedIdle ==
  /\ emPc = "start"
  /\ emEnv = [provider |-> "", apiKey |-> FALSE, sdk |-> FALSE]
  /\ emDim = 0
  /\ emTexts = <<>>
  /\ emReplies = <<>>
  /\ emOut = <<>>

\* the indexer not started
IndexerIdle ==
  /\ ixPc = "start"
  /\ ixFiles = <<>>
  /\ ixFile = 1
  /\ ixComps = <<>>
  /\ ixComp = 1
  /\ ixAll = <<>>
  /\ ixWarned = 0
  /\ ixWritten = [done |-> FALSE, components |-> <<>>]

\* the server's start-up over: the index is loaded, the server listens
LoadIdle ==
  /\ srvFile = <<>>
  /\ srvPc = "listening"

\* the extractor not called
ExtractIdle ==
  /\ exPc = "start"
  /\ exFile = <<>>
  /\ exOut = <<>>

\* the explorer as first rendered: the initial values of its useState calls
UiIdle ==
  /\ uiPc = "rendered"
  /\ uiSearching = FALSE
  /\ uiAnswering = FALSE
  /\ uiSearches = 0
  /\ uiAnswers = 0
  /\ uiResults = <<>>
  /\ uiAnswer = [answer |-> "", used |-> <<>>]
  /\ uiError = ""

Init ==
  /\ \E index \in IndexFiles : ServerIdle(index)
  /\ CliIdle
  /\ EmbedIdle
  /\ IndexerIdle
  /\ LoadIdle
  /\ ExtractIdle
  /\ UiIdle

(***************************************************************************)
(* server.ts: the handlers, one action per stretch between two awaits.     *)
(***************************************************************************)
Error(status, msg) == [NoResp EXCEPT !.status = status, !.error = msg]

\* the effective k of a request
TopKOf(rq) ==
  IF rq.route = "search" THEN ClampTopK(rq.topK, SearchDefaultK, SearchMaxK)
  ELSE ClampTopK(rq.topK, AnswerDefaultK, AnswerMaxK)

\* app.get("/search") and app.get("/answer") up to `await ollamaEmbed(q)`
Start(r, route, q, topK, scope) ==
  /\ pc[r] = "idle"
  /\ req' = [req EXCEPT ![r] = [NoReq EXCEPT !.route = route, !.q = q,
                                              !.topK = topK, !.scope = scope]]
  /\ IF Trim(q) = <<>>
     THEN /\ resp' = [resp EXCEPT ![r] = Error(400, "missing q")]
          /\ pc' = [pc EXCEPT ![r] = "done"]
          /\ UNCHANGED <<pool, embedCalls>>
     ELSE /\ pool' = [pool EXCEPT ![r] = ScopePool(INDEX, ScopeOf(scope))]
          /\ embedCalls' = [embedCalls EXCEPT ![r] = @ + 1]
          /\ pc' = [pc EXCEPT ![r] = "embedWait"]
          /\ UNCHANGED resp
  /\ UNCHANGED <<INDEX, ranked, prompt, genCalls, embedOutcome, genOutcome, aborted>>
  /\ UNCHANGED <<cliVars, embedVars, indexerVars, loadVars, extractVars, uiVars>>

SearchStart(r) ==
  \E q \in Queries, topK \in TopKParams, scope \in ScopeParams :
    Start(r, "search", q, topK, scope)

AnswerStart(r) ==
  \E q \in Queries, topK \in TopKParams, scope \in ScopeParams :
    Start(r, "answer", q, topK, scope)

\* /search from the reply of the embedding backend to the response
SearchEmbedded(r, outcome, vec) ==
  /\ pc[r] = "embedWait"
  /\ req[r].route = "search"
  /\ embedOutcome' = [embedOutcome EXCEPT ![r] = outcome]
  /\ aborted' = [aborted EXCEPT ![r] = FALSE]
  /\ pc' = [pc EXCEPT ![r] = "done"]
  /\ LET e == ollamaEmbed(outcome, vec)
         rk == Rank(pool[r], e.value, TopKOf(req[r]))
     IN  IF e.ok
         THEN /\ ranked' = [ranked EXCEPT ![r] = rk]
              /\ resp' = [resp EXCEPT ![r] =
                            [NoResp EXCEPT !.status = 200, !.query = Trim(req[r].q),
                                           !.count = Len(pool[r]),
                                           !.results = SearchResults(rk)]]
         ELSE /\ resp' = [resp EXCEPT ![r] = Error(500, e.error)]
              /\ UNCHANGED ranked
  /\ INDEX' = IF ollamaEmbed(outcome, vec).ok /\ PoolIsIndex(ScopeOf(req[r].scope))
              THEN PoolAfterRank(INDEX, vec)
              ELSE INDEX
  /\ UNCHANGED <<req, pool, prompt, embedCalls, genCalls, genOutcome>>
  /\ UNCHANGED <<cliVars, embedVars, indexerVars, loadVars, extractVars, uiVars>>

\* /answer from the reply of the embedding backend to `await ollamaGenerate(prompt)`
AnswerEmbedded(r, outcome, vec) ==
  /\ pc[r] = "embedWait"
  /\ req[r].route = "answer"
  /\ embedOutcome' = [embedOutcome EXCEPT ![r] = outcome]
  /\ aborted' = [aborted EXCEPT ![r] = FALSE]
  /\ LET e == ollamaEmbed(outcome, vec)
         rk == Rank(pool[r], e.value, TopKOf(req[r]))
     IN  IF e.ok
         THEN /\ ranked' = [ranked EXCEPT ![r] = rk]
              /\ prompt' = [prompt EXCEPT ![r] =
                              [question |-> Trim(req[r].q), context |-> Context(rk)]]
              /\ genCalls' = [genCalls EXCEPT ![r] = @ + 1]
              /\ pc' = [pc EXCEPT ![r] = "genWait"]
              /\ UNCHANGED resp
         ELSE /\ resp' = [resp EXCEPT ![r] = Error(500, e.error)]
              /\ pc' = [pc EXCEPT ![r] = "done"]
              /\ UNCHANGED <<ranked, prompt, genCalls>>
  /\ INDEX' = IF ollamaEmbed(outcome, vec).ok /\ PoolIsIndex(ScopeOf(req[r].scope))
              THEN PoolAfterRank(INDEX, vec)
              ELSE INDEX
  /\ UNCHANGED <<req, pool, embedCalls, genOutcome>>
  /\ UNCHANGED <<cliVars, embedVars, indexerVars, loadVars, extractVars, uiVars>>

EmbedReplies(r) ==
  \/ \E vec \in QueryVectors :
       SearchEmbedded(r, "ok", vec) \/ AnswerEmbedded(r, "ok", vec)
  \/ \E f \in EmbedFailures :
       SearchEmbedded(r, f, <<>>) \/ AnswerEmbedded(r, f, <<>>)

\* /answer from the reply of the generation backend to the response
Generated(r, outcome, text) ==
  /\ pc[r] = "genWait"
  /\ genOutcome' = [genOutcome EXCEPT ![r] = outcome]
  /\ aborted' = [aborted EXCEPT ![r] = FALSE]
  /\ pc' = [pc EXCEPT ![r] = "done"]
  /\ LET g == ollamaGenerate(outcome, text)
     IN  resp' = [resp EXCEPT ![r] =
           IF g.ok
           THEN [NoResp EXCEPT !.status = 200, !.query = Trim(req[r].q),
                               !.scope = ScopeOf(req[r].scope),
                               !.used = Used(ranked[r]),
                               !.answer = g.value, !.hasAnswer = TRUE]
           ELSE Error(500, g.error)]
  /\ UNCHANGED <<INDEX, req, pool, ranked, prompt, embedCalls, genCalls, embedOutcome>>
  /\ UNCHANGED <<cliVars, embedVars, indexerVars, loadVars, extractVars, uiVars>>

GenReplies(r) ==
  \/ \E text \in GenTexts : Generated(r, "ok", text)
  \/ Generated(r, "no_response", <<>>)
  \/ \E f \in GenFailures : Generated(r, f, <<>>)

\* withTimeout's timer fires while the fetch is pending: ac.abort() runs,
\* but the fetch was started without ac.signal, so nothing else changes
TimerFires(r) ==
  /\ pc[r] \in {"embedWait", "genWait"}
  /\ ~aborted[r]
  /\ aborted' = [aborted EXCEPT ![r] = TRUE]
  /\ UNCHANGED <<INDEX, pc, req, pool, ranked, prompt, resp, embedCalls, genCalls,
                 embedOutcome, genOutcome>>
  /\ UNCHANGED <<cliVars, embedVars, indexerVars, loadVars, extractVars, uiVars>>

\* app.get("/component")
Component(r) ==
  /\ pc[r] = "idle"
  /\ \E c \in Catalog :
       /\ req' = [req EXCEPT ![r] = [NoReq EXCEPT !.route = "component",
                                                   !.name = c.name, !.file = c.file]]
       /\ resp' = [resp EXCEPT ![r] =
            IF \E i \in 1..Len(INDEX) : INDEX[i].name = c.name /\ INDEX[i].file = c.file
            THEN LET hit == INDEX[CHOOSE i \in 1..Len(INDEX) :
                                   /\ INDEX[i].name = c.name /\ INDEX[i].file = c.file
                                   /\ \A j \in 1..(i - 1) :
                                        ~(INDEX[j].name = c.name /\ INDEX[j].file = c.file)]
                 IN  [NoResp EXCEPT !.status = 200, !.query = hit.name, !.code = hit.code]
            ELSE Error(404, "not found")]
  /\ pc' = [pc EXCEPT ![r] = "done"]
  /\ UNCHANGED <<INDEX, pool, ranked, prompt, embedCalls, genCalls, embedOutcome,
                 genOutcome, aborted>>
  /\ UNCHANGED <<cliVars, embedVars, indexerVars, loadVars, extractVars, uiVars>>

\* the response has been sent; the next request arrives
Close(r) ==
  /\ pc[r] = "done"
  /\ pc' = [pc EXCEPT ![r] = "idle"]
  /\ req' = [req EXCEPT ![r] = NoReq]
  /\ pool' = [pool EXCEPT ![r] = <<>>]
  /\ ranked' = [ranked EXCEPT ![r] = <<>>]
  /\ prompt' = [prompt EXCEPT ![r] = NoPrompt]
  /\ resp' = [resp EXCEPT ![r] = NoResp]
  /\ embedCalls' = [embedCalls EXCEPT ![r] = 0]
  /\ genCalls' = [genCalls EXCEPT ![r] = 0]
  /\ embedOutcome' = [embedOutcome EXCEPT ![r] = "none"]
  /\ genOutcome' = [genOutcome EXCEPT ![r] = "none"]
  /\ UNCHANGED <<INDEX, aborted>>
  /\ UNCHANGED <<cliVars, embedVars, indexerVars, loadVars, extractVars, uiVars>>

Next ==
  \E r \in Requests :
    \/ SearchStart(r)
    \/ AnswerStart(r)
    \/ EmbedReplies(r)
    \/ GenReplies(r)
    \/ TimerFires(r)
    \/ Component(r)
    \/ Close(r)

Spec == Init /\ [][Next]_vars

(***************************************************************************)
(* server.ts with two clients: a handler runs up to its next await, and    *)
(* the handlers of other requests run in between.                          *)
(***************************************************************************)
Clients == {1, 2}

\* the indexes served: full ones, where ranking has something to reorder
ServeInit ==
  /\ \E index \in { f \in IndexFiles : Len(f) = MaxIndex } : ServerState(index, Clients)
  /\ CliIdle
  /\ EmbedIdle
  /\ IndexerIdle
  /\ LoadIdle
  /\ ExtractIdle
  /\ UiIdle

ServeStart(r) ==
  \E route \in {"search", "answer"}, q \in { <<>>, <<"n">> },
     topK \in { <<>>, <<"2">> }, scope \in { "", "src" } :
    Start(r, route, q, topK, scope)

ServeNext ==
  \E r \in Clients :
    \/ ServeStart(r)
    \/ EmbedReplies(r)
    \/ GenReplies(r)
    \/ TimerFires(r)
    \/ Component(r)
    \/ Close(r)

SpecServe == ServeInit /\ [][ServeNext]_vars

(***************************************************************************)
(* search.ts: the command-line search.                                     *)
(***************************************************************************)
\* results.slice(0, 5)
CliTopK == 5

\* Array.prototype.join(" ")
RECURSIVE JoinSpace(_)
JoinSpace(args) ==
  IF args = <<>> THEN <<>>
  ELSE IF Len(args) = 1 THEN Head(args)
  ELSE Head(args) \o <<" ">> \o JoinSpace(Tail(args))

\* the sum of v[i] * w[i] over i = 1..n
RECURSIVE DotPrefix(_, _, _)
DotPrefix(v, w, n) ==
  IF n = 0 THEN 0 ELSE v[n] * w[n] + DotPrefix(v, w, n - 1)

cosineSimilarity(a, b) ==
  LET n == IF Len(a) < Len(b) THEN Len(a) ELSE Len(b)
  IN  IF n = 0 THEN Num(0)
      ELSE LET dot   == DotPrefix(a, b, n)
               na    == DotPrefix(a, a, n)
               nb    == DotPrefix(b, b, n)
               denom == Sqrt(na) * Sqrt(nb)
           IN  IF denom = 0 THEN Num(0) ELSE Rat(dot, denom)

\* the sanity filter of loadComponents
ValidEntry(c) ==
  /\ c.type = "object"
  /\ c.nameIsString /\ c.fileIsString /\ c.codeIsString /\ c.embeddingIsArray

RECURSIVE EntryRecords(_)
EntryRecords(entries) ==
  IF entries = <<>> THEN <<>>
  ELSE <<Head(entries).rec>> \o EntryRecords(Tail(entries))

\* loadComponents: [ok, components]; ok is FALSE when it throws
loadComponents(file) ==
  IF ~file.exists THEN [ok |-> FALSE, components |-> <<>>]
  ELSE IF file.form = "blank" THEN [ok |-> FALSE, components |-> <<>>]
  ELSE IF file.form = "jsonl" /\ \E i \in 1..Len(file.lines) : ~file.lines[i].json
       THEN [ok |-> FALSE, components |-> <<>>]
  ELSE LET arr == IF file.form = "jsonl"
                  THEN [i \in 1..Len(file.lines) |-> file.lines[i].value]
                  ELSE IF file.value.type = "array" THEN file.value.items
                  ELSE IF file.value.type = "object" /\ file.value.componentsIsArray
                       THEN file.value.components
                  ELSE <<>>
           components == SelectSeq(arr, ValidEntry)
       IN  IF Len(components) = 0 THEN [ok |-> FALSE, components |-> <<>>]
           ELSE [ok |-> TRUE, components |-> EntryRecords(components)]

\* what embed (search.ts) does with the backend's reply
cliEmbed(outcome, vec) ==
  IF outcome = "ok" THEN [ok |-> TRUE, value |-> vec] ELSE [ok |-> FALSE, value |-> <<>>]

\* components.map(c => ({...c, score})).sort((a, b) => b.score - a.score).slice(0, 5)
CliRank(components, qv) ==
  LET scored == [i \in 1..Len(components) |->
                  [name |-> components[i].name, file |-> components[i].file,
                   code |-> components[i].code, embedding |-> components[i].embedding,
                   score |-> cosineSimilarity(qv, components[i].embedding)]]
  IN  Slice0(SortByScore(scored), Num(CliTopK))

\* contents of data/index.json the command line can meet
CliFiles ==
  LET
      \* entries of an index file
      Entry(c) ==
        [type |-> "object", nameIsString |-> TRUE, fileIsString |-> TRUE,
         codeIsString |-> TRUE, embeddingIsArray |-> TRUE, rec |-> c]

      NullEntry ==
        [type |-> "null", nameIsString |-> FALSE, fileIsString |-> FALSE,
         codeIsString |-> FALSE, embeddingIsArray |-> FALSE, rec |-> <<>>]

      NoEmbeddingEntry(c) == [Entry(c) EXCEPT !.embeddingIsArray = FALSE]

      RecA == CHOOSE c \in Catalog : c.name = <<"A">>

      RecB == CHOOSE c \in Catalog : c.name = <<"B">> /\ c.embedding = <<1, 0>>

      RecBdom == CHOOSE c \in Catalog : c.name = <<"B">> /\ c.embedding = <<3, 4>>

      RecC == CHOOSE c \in Catalog : c.name = <<"C">>

      RecD == CHOOSE c \in Catalog : c.name = <<"D">>

      JsonArray(items) ==
        [exists |-> TRUE, form |-> "json",
         value |-> [type |-> "array", items |-> items, componentsIsArray |-> FALSE,
                    components |-> <<>>],
         lines |-> <<>>]

      JsonObject(isArray, components) ==
        [exists |-> TRUE, form |-> "json",
         value |-> [type |-> "object", items |-> <<>>, componentsIsArray |-> isArray,
                    components |-> components],
         lines |-> <<>>]

      JsonNull ==
        [exists |-> TRUE, form |-> "json",
         value |-> [type |-> "null", items |-> <<>>, componentsIsArray |-> FALSE,
                    components |-> <<>>],
         lines |-> <<>>]

      JsonLines(lines) ==
        [exists |-> TRUE, form |-> "jsonl",
         value |-> [type |-> "null", items |-> <<>>, componentsIsArray |-> FALSE,
                    components |-> <<>>],
         lines |-> lines]

      BlankFile ==
        [exists |-> TRUE, form |-> "blank",
         value |-> [type |-> "null", items |-> <<>>, componentsIsArray |-> FALSE,
                    components |-> <<>>],
         lines |-> <<>>]

      MissingFile == [BlankFile EXCEPT !.exists = FALSE]
  IN
      { MissingFile, BlankFile, JsonNull,
        JsonArray(<<>>),
        JsonArray(<<Entry(RecA), Entry(RecB)>>),
        JsonArray(<<Entry(RecA), Entry(RecB), Entry(RecBdom)>>),
        JsonArray(<<NullEntry, NoEmbeddingEntry(RecA)>>),
        JsonArray(<<NoEmbeddingEntry(RecA), Entry(RecB), NullEntry, Entry(RecC)>>),
        JsonObject(TRUE, <<Entry(RecA), Entry(RecBdom), Entry(RecD)>>),
        JsonObject(TRUE, <<NullEntry>>),
        JsonObject(FALSE, <<>>),
        JsonLines(<<[json |-> TRUE, value |-> Entry(RecB)],
                    [json |-> TRUE, value |-> Entry(RecC)]>>),
        JsonLines(<<[json |-> TRUE, value |-> Entry(RecB)],
                    [json |-> FALSE, value |-> NullEntry]>>) }

\* process.argv.slice(2)
CliArgvs ==
  { <<>>, << <<>> >>, << <<" ">> >>, << <<>>, <<>> >>, << <<"n">> >>,
    << <<"n">>, <<"a">> >> }

CliInit ==
  /\ cliPc = "start"
  /\ cliArgv \in CliArgvs
  /\ cliFile \in CliFiles
  /\ cliComponents = <<>>
  /\ cliEmbedCalls = 0
  /\ cliResults = <<>>
  /\ cliExit = -1
  /\ ServerIdle(<<>>) /\ EmbedIdle /\ IndexerIdle
  /\ LoadIdle /\ ExtractIdle /\ UiIdle

\* main up to `await embed(query)`
CliStart ==
  /\ cliPc = "start"
  /\ cliExit = -1
  /\ LET query  == JoinSpace(cliArgv)
         loaded == loadComponents(cliFile)
     IN  IF query = <<>>
         THEN /\ cliExit' = 1
              /\ cliPc' = "exit"
              /\ UNCHANGED <<cliComponents, cliEmbedCalls>>
         ELSE IF ~loaded.ok
         THEN /\ cliExit' = 1
              /\ cliPc' = "exit"
              /\ UNCHANGED <<cliComponents, cliEmbedCalls>>
         ELSE /\ cliComponents' = loaded.components
              /\ cliEmbedCalls' = cliEmbedCalls + 1
              /\ cliPc' = "embedWait"
              /\ UNCHANGED cliExit
  /\ UNCHANGED <<cliArgv, cliFile, cliResults>>
  /\ UNCHANGED <<serverVars, embedVars, indexerVars, loadVars, extractVars, uiVars>>

\* main from the reply of the embedding backend to the end
CliEmbedded(outcome, vec) ==
  /\ cliPc = "embedWait"
  /\ LET e == cliEmbed(outcome, vec)
     IN  IF e.ok
         THEN /\ cliResults' = CliRank(cliComponents, e.value)
              /\ cliExit' = 0
         ELSE /\ cliExit' = 1
              /\ UNCHANGED cliResults
  /\ cliPc' = "exit"
  /\ UNCHANGED <<cliArgv, cliFile, cliComponents, cliEmbedCalls>>
  /\ UNCHANGED <<serverVars, embedVars, indexerVars, loadVars, extractVars, uiVars>>

CliEmbedReplies ==
  \/ \E vec \in QueryVectors : CliEmbedded("ok", vec)
  \/ \E f \in EmbedFailures : CliEmbedded(f, <<>>)

CliNext == CliStart \/ CliEmbedReplies

SpecCli == CliInit /\ [][CliNext]_vars

(***************************************************************************)
(* server.ts at start-up: the index file is read and parsed while the      *)
(* module loads.  Both loaders are run over the same data/index.json.      *)
(* Here INDEX holds the parsed JSON value as it is.                        *)
(***************************************************************************)
\* INDEX = JSON.parse(fs.readFileSync(dataPath, "utf8")) after the
\* existsSync test: [ok, value]; ok is FALSE when the process exits or the
\* module throws while loading
serverLoad(file) ==
  LET undefined == [type |-> "undefined", items |-> <<>>, componentsIsArray |-> FALSE,
                    components |-> <<>>]
  IN  IF ~file.exists THEN [ok |-> FALSE, value |-> undefined]
      ELSE IF file.form # "json" THEN [ok |-> FALSE, value |-> undefined]
      ELSE [ok |-> TRUE, value |-> file.value]

LoadInit ==
  /\ cliPc = "start"
  /\ cliArgv \in CliArgvs
  /\ cliFile \in CliFiles
  /\ cliComponents = <<>>
  /\ cliEmbedCalls = 0
  /\ cliResults = <<>>
  /\ cliExit = -1
  /\ srvFile = cliFile
  /\ srvPc = "start"
  /\ ServerState(serverLoad([exists |-> FALSE]).value, Requests)
  /\ EmbedIdle
  /\ IndexerIdle
  /\ ExtractIdle
  /\ UiIdle

\* the module body of server.ts down to app.listen
ServerLoad ==
  /\ srvPc = "start"
  /\ LET loaded == serverLoad(srvFile)
     IN  IF loaded.ok
         THEN /\ INDEX' = loaded.value
              /\ srvPc' = "listening"
         ELSE /\ srvPc' = "exit"
              /\ UNCHANGED INDEX
  /\ UNCHANGED <<pc, req, pool, ranked, prompt, resp, embedCalls, genCalls,
                 embedOutcome, genOutcome, aborted, srvFile>>
  /\ UNCHANGED <<cliVars, embedVars, indexerVars, extractVars, uiVars>>

LoadNext == ServerLoad \/ CliStart \/ CliEmbedReplies

SpecLoad == LoadInit /\ [][LoadNext]_vars

(***************************************************************************)
(* embeddings.ts: the embedding provider.                                  *)
(*                                                                         *)
(* A 32-bit unsigned value is the pair <<hi, lo>> of its 16-bit halves.    *)
(* A vector is kept as [kind, src, h, dim]: its source (the fallback or a   *)
(* backend), the hash of the text it was computed from and its width.      *)
(* Coordinate i of a fallback vector is Math.sin of 0.000113 times the     *)
(* phase h + i, again a pair of halves.                                    *)
(***************************************************************************)
FALLBACK_DIM == 768
\* 2166136261 = 33052 * 65536 + 40389
FnvOffsetHi == 33052
FnvOffsetLo == 40389
\* 16777619 = 256 * 65536 + 403
FnvPrimeHi == 256
FnvPrimeLo == 403
Half == 256 * 256

CharCodes == <<[c |-> " ", code |-> 32], [c |-> "a", code |-> 97],
               [c |-> "b", code |-> 98], [c |-> "n", code |-> 110]>>

charCodeAt(c) == CharCodes[CHOOSE i \in 1..Len(CharCodes) : CharCodes[i].c = c].code

\* bitwise exclusive or of two 16-bit values
RECURSIVE Xor16(_, _)
Xor16(a, b) ==
  IF a = 0 THEN b
  ELSE IF b = 0 THEN a
  ELSE (((a % 2) + (b % 2)) % 2) + 2 * Xor16(a \div 2, b \div 2)

\* Math.imul(h, 16777619) >>> 0
Imul(h) ==
  LET low == h[2] * FnvPrimeLo
  IN  << (h[1] * FnvPrimeLo + h[2] * FnvPrimeHi + (low \div Half)) % Half, low % Half >>

\* the hash after the characters of s: h ^= s.charCodeAt(i); h = Math.imul(...) >>> 0
RECURSIVE FnvFold(_, _)
FnvFold(h, s) ==
  IF s = <<>> THEN h
  ELSE FnvFold(Imul(<<h[1], Xor16(h[2], charCodeAt(Head(s)))>>), Tail(s))

FnvHash(s) == FnvFold(<<FnvOffsetHi, FnvOffsetLo>>, s)

\* h + i as a JS number (no wrap)
Phase(h, i) == << h[1] + ((h[2] + i) \div Half), (h[2] + i) % Half >>

\* json.embedding of a body that has none
UndefinedValue == [kind |-> "undefined", src |-> "", h |-> <<0, 0>>, dim |-> 0]

\* a hash seeded with the number of vectors already collected
pseudoEmbeddingByPosition(s, dim) ==
  [kind |-> "vector", src |-> "fallback",
   h |-> FnvFold(<<FnvOffsetHi, FnvOffsetLo + Len(emOut)>>, s), dim |-> dim]

\* the array out[0..dim-1] with out[i] = Math.sin((h + i) * 0.000113), kept as
\* the hash and the width that determine it
pseudoEmbedding(s, dim) ==
  [kind |-> "vector", src |-> "fallback", h |-> FnvHash(s), dim |-> dim]

\* the phases of the coordinates of a fallback vector
Phases(v) == [i \in 1..v.dim |-> Phase(v.h, i - 1)]

\* the vector a backend of width dim computes for a text
BackendVector(s, dim) ==
  [kind |-> "vector", src |-> "backend", h |-> FnvHash(s), dim |-> dim]

\* (process.env.EMBEDDINGS_PROVIDER || "").toLowerCase()
toLowerCase(p) == IF p = "Ollama" THEN "ollama" ELSE p

provider(env) ==
  IF toLowerCase(env.provider) = "ollama" THEN "ollama"
  ELSE IF env.apiKey THEN "openai"
  ELSE "pseudo"

RECURSIVE PseudoAll(_)
PseudoAll(texts) ==
  IF texts = <<>> THEN <<>>
  ELSE <<pseudoEmbedding(Head(texts), FALLBACK_DIM)>> \o PseudoAll(Tail(texts))

\* one turn of the loop of embedWithOllama: what is pushed for `input`
OllamaItem(input, outcome, dim) ==
  IF outcome = "ok" THEN BackendVector(input, dim)
  ELSE IF outcome = "no_embedding" THEN UndefinedValue
  ELSE pseudoEmbedding(input, FALLBACK_DIM)

\* embedWithOpenAI after client.embeddings.create: one request carries the
\* whole batch, and it fails when the API rejects any input of it
OpenAIBatch(texts, verdicts, dim) ==
  IF \A i \in 1..Len(verdicts) : verdicts[i] = "ok"
  THEN [i \in 1..Len(texts) |-> BackendVector(texts[i], dim)]
  ELSE PseudoAll(texts)

EmTextChoices == { <<>>, <<"a">>, <<"a", "b">> }

EmTexts == UNION { [1..n -> EmTextChoices] : n \in 0..MaxTexts }

EmEnvs ==
  [provider : {"", "Ollama"}, apiKey : BOOLEAN, sdk : BOOLEAN]

\* widths of the vectors of the backend's model
BackendDims == { 768, 384 }

OllamaOutcomes == { "ok", "http_error", "network_error", "bad_json", "no_embedding" }

OpenAIVerdicts == { "ok", "error" }

EmbedInit ==
  /\ emPc = "start"
  /\ emEnv \in EmEnvs
  /\ emDim \in BackendDims
  /\ emTexts \in EmTexts
  /\ emReplies = <<>>
  /\ emOut = <<>>
  /\ ServerIdle(<<>>) /\ CliIdle /\ IndexerIdle
  /\ LoadIdle /\ ExtractIdle /\ UiIdle

\* embed(texts) up to the first await
EmbedCall ==
  /\ emPc = "start"
  /\ LET p == provider(emEnv)
     IN  IF p = "ollama"
         THEN /\ emPc' = IF emTexts = <<>> THEN "done" ELSE "ollamaWait"
              /\ UNCHANGED emOut
         ELSE IF p = "openai" /\ emEnv.sdk
         THEN /\ emPc' = "openaiWait"
              /\ UNCHANGED emOut
         ELSE /\ emPc' = "done"
              /\ emOut' = PseudoAll(emTexts)
  /\ UNCHANGED <<emEnv, emDim, emTexts, emReplies>>
  /\ UNCHANGED <<serverVars, cliVars, indexerVars, loadVars, extractVars, uiVars>>

\* embedWithOllama: the backend replies for the item at hand
OllamaReplied(outcome) ==
  /\ emPc = "ollamaWait"
  /\ LET input == emTexts[Len(emOut) + 1]
     IN  emOut' = Append(emOut, OllamaItem(input, outcome, emDim))
  /\ emReplies' = Append(emReplies, outcome)
  /\ emPc' = IF Len(emOut) + 1 = Len(emTexts) THEN "done" ELSE "ollamaWait"
  /\ UNCHANGED <<emEnv, emDim, emTexts>>
  /\ UNCHANGED <<serverVars, cliVars, indexerVars, loadVars, extractVars, uiVars>>

OllamaReplies == \E outcome \in OllamaOutcomes : OllamaReplied(outcome)

\* embedWithOpenAI: the API replies for the batch
OpenAIReplied(verdicts) ==
  /\ emPc = "openaiWait"
  /\ emOut' = OpenAIBatch(emTexts, verdicts, emDim)
  /\ emReplies' = verdicts
  /\ emPc' = "done"
  /\ UNCHANGED <<emEnv, emDim, emTexts>>
  /\ UNCHANGED <<serverVars, cliVars, indexerVars, loadVars, extractVars, uiVars>>

\* the API gives equal inputs equal verdicts
OpenAIReplies ==
  \E verdicts \in [1..Len(emTexts) -> OpenAIVerdicts] :
    /\ \A i, j \in 1..Len(emTexts) : emTexts[i] = emTexts[j] => verdicts[i] = verdicts[j]
    /\ OpenAIReplied(verdicts)

EmbedNext == EmbedCall \/ OllamaReplies \/ OpenAIReplies

SpecEmbed == EmbedInit /\ [][EmbedNext]_vars

(***************************************************************************)
(* indexer.ts: the indexing run.                                           *)
(*                                                                         *)
(* A parsed file is the sequence of its declaration nodes in the order     *)
(* traverse visits them.  A node carries what the visitors read: its type, *)
(* the declared name (empty when there is no identifier), whether its      *)
(* subtree holds a JSX element or fragment, the type of a declarator's     *)
(* initializer, a class's superclass, how render is declared and whether   *)
(* render holds JSX, and the source text of the node.                      *)
(***************************************************************************)
\* c.code.split("\n").slice(0, 200)
SnippetLines == 200

isCapitalized(name) ==
  name # <<>> /\ \E i \in 1..Len(Letters) : Letters[i] = Head(name)

\* the superclass test of the ClassDeclaration visitor
ExtendsReact(superClass) ==
  superClass \in {"React.Component", "React.PureComponent", "Component", "PureComponent"}

\* whether a visitor pushes a component for the node
Recognized(node) ==
  IF node.type = "FunctionDeclaration"
  THEN isCapitalized(node.name) /\ node.jsx
  ELSE IF node.type = "VariableDeclarator"
  THEN /\ isCapitalized(node.name)
       /\ node.init \in {"ArrowFunctionExpression", "FunctionExpression"}
       /\ node.jsx
  ELSE /\ isCapitalized(node.name)
       /\ ExtendsReact(node.superClass)
       /\ node.render = "method" /\ node.renderJSX

\* Deduplicate by name (keep first occurrence per file)
RECURSIVE Dedup(_, _)
Dedup(components, seen) ==
  IF components = <<>> THEN <<>>
  ELSE IF Head(components).name \in seen THEN Dedup(Tail(components), seen)
  ELSE <<Head(components)>> \o Dedup(Tail(components), seen \cup {Head(components).name})

extractComponents(source) ==
  IF ~source.parses THEN <<>>
  ELSE LET pushed == SelectSeq(source.nodes, Recognized)
       IN  Dedup([i \in 1..Len(pushed) |-> [name |-> pushed[i].name, code |-> pushed[i].code]],
                 {})

\* readFileSafe and `if (!code) continue`, then extractComponents
FileComponents(file) ==
  IF ~file.readable \/ file.source.empty THEN <<>> ELSE extractComponents(file.source)

\* the loop left at the first file that yields no component
NextWorkUntilFailure(files, i) ==
  IF i > Len(files) THEN i
  ELSE IF Len(FileComponents(files[i])) > 0 THEN i
  ELSE Len(files) + 1

\* the first file at or after position i that yields components
RECURSIVE NextWork(_, _)
NextWork(files, i) ==
  IF i > Len(files) THEN i
  ELSE IF Len(FileComponents(files[i])) > 0 THEN i
  ELSE NextWork(files, i + 1)

Snippet(code) == SubSeq(code, 1, IF Len(code) < SnippetLines THEN Len(code) ELSE SnippetLines)

\* what embed (indexer.ts) does with the backend's reply for a prompt
indexerEmbed(outcome, name, code) ==
  IF outcome = "ok"
  THEN [ok |-> TRUE, value |-> [kind |-> "vector", src |-> "backend", of |-> <<name, code>>]]
  ELSE [ok |-> FALSE, value |-> [kind |-> "undefined", src |-> "", of |-> <<>>]]

\* all.sort((a, b) => a.name.localeCompare(b.name)); writeFileSync
WriteIndex(all) == [done |-> TRUE, components |-> ArraySort(all, "name")]

Node(type, name, jsx, init, superClass, render, renderJSX, code) ==
  [type |-> type, name |-> name, jsx |-> jsx, init |-> init, superClass |-> superClass,
   render |-> render, renderJSX |-> renderJSX, code |-> code]

SourceFile(rel, readable, empty, parses, nodes) ==
  [rel |-> rel, readable |-> readable,
   source |-> [empty |-> empty, parses |-> parses, nodes |-> nodes]]

\* files a scan can list
IxFileChoices ==
  LET
      Function(name, jsx, code) ==
        Node("FunctionDeclaration", name, jsx, "none", "none", "none", FALSE, code)

      Declarator(name, init, jsx, code) ==
        Node("VariableDeclarator", name, jsx, init, "none", "none", FALSE, code)

      Class(name, superClass, render, renderJSX, jsx, code) ==
        Node("ClassDeclaration", name, jsx, "none", superClass, render, renderJSX, code)
  IN
      { SourceFile(<<"examples", "/", "App.tsx">>, TRUE, FALSE, TRUE,
                   << Function(<<"D">>, TRUE, <<12, 3>>),
                      Function(<<"a">>, TRUE, <<5>>) >>),
        SourceFile(<<"packages", "/", "react-router", "/", "index.tsx">>, TRUE, FALSE, TRUE,
                   << Declarator(<<"B">>, "ArrowFunctionExpression", TRUE, <<9>>),
                      Class(<<"A">>, "React.Component", "method", TRUE, TRUE, <<20, 20, 1>>),
                      Function(<<"B">>, TRUE, <<30>>) >>),
        SourceFile(<<"docs", "/", "plain.ts">>, TRUE, FALSE, TRUE,
                   << Function(<<"C">>, FALSE, <<8>>),
                      Class(<<"E">>, "Component", "method", FALSE, TRUE, <<40>>),
                      Class(<<"F">>, "Base", "method", TRUE, TRUE, <<40>>),
                      Declarator(<<"F">>, "CallExpression", TRUE, <<15>>),
                      Function(<<>>, TRUE, <<6>>) >>),
        SourceFile(<<"docs", "/", "broken.tsx">>, TRUE, FALSE, FALSE, <<>>),
        SourceFile(<<"docs", "/", "empty.ts">>, TRUE, TRUE, TRUE, <<>>),
        SourceFile(<<"docs", "/", "locked.tsx">>, FALSE, FALSE, TRUE,
                   << Function(<<"C">>, TRUE, <<8>>) >>) }

IxFileLists ==
  { f \in UNION { [1..n -> IxFileChoices] : n \in 0..MaxFiles } : Injective(f) }

IndexerInit ==
  /\ ixPc = "start"
  /\ ixFiles \in IxFileLists
  /\ ixFile = 1
  /\ ixComps = <<>>
  /\ ixComp = 1
  /\ ixAll = <<>>
  /\ ixWarned = 0
  /\ ixWritten = [done |-> FALSE, components |-> <<>>]
  /\ ServerIdle(<<>>) /\ CliIdle /\ EmbedIdle
  /\ LoadIdle /\ ExtractIdle /\ UiIdle

\* the loop moves to the file at position j, or past the last file to the
\* sort, which sorts `all` in place, and the write
IxMoveTo(j, all) ==
  IF j > Len(ixFiles)
  THEN /\ ixPc' = "exit"
       /\ ixWritten' = WriteIndex(all)
       /\ ixAll' = WriteIndex(all).components
       /\ ixFile' = j
       /\ ixComps' = <<>>
       /\ ixComp' = 1
  ELSE /\ ixPc' = "embedWait"
       /\ ixFile' = j
       /\ ixComps' = FileComponents(ixFiles[j])
       /\ ixComp' = 1
       /\ ixAll' = all
       /\ UNCHANGED ixWritten

\* main up to the first `await embed(...)`, or to the end when no file
\* yields a component
IxStart ==
  /\ ixPc = "start"
  /\ IxMoveTo(NextWork(ixFiles, 1), ixAll)
  /\ UNCHANGED <<ixFiles, ixWarned>>
  /\ UNCHANGED <<serverVars, cliVars, embedVars, loadVars, extractVars, uiVars>>

\* main from the reply of the embedding backend to the next await or the end
IxEmbedded(outcome) ==
  /\ ixPc = "embedWait"
  /\ LET c       == ixComps[ixComp]
         trimmed == Snippet(c.code)
         e       == indexerEmbed(outcome, c.name, trimmed)
         all     == IF e.ok
                    THEN Append(ixAll, [name |-> c.name, file |-> ixFiles[ixFile].rel,
                                        code |-> trimmed, embedding |-> e.value])
                    ELSE ixAll
     IN  /\ ixWarned' = IF e.ok THEN ixWarned ELSE ixWarned + 1
         /\ IF ixComp < Len(ixComps)
            THEN /\ ixComp' = ixComp + 1
                 /\ ixAll' = all
                 /\ UNCHANGED <<ixPc, ixFile, ixComps, ixWritten>>
            ELSE IxMoveTo(NextWork(ixFiles, ixFile + 1), all)
  /\ UNCHANGED ixFiles
  /\ UNCHANGED <<serverVars, cliVars, embedVars, loadVars, extractVars, uiVars>>

IxEmbedReplies ==
  \/ IxEmbedded("ok")
  \/ \E f \in EmbedFailures : IxEmbedded(f)

IndexerNext == IxStart \/ IxEmbedReplies

SpecIndexer == IndexerInit /\ [][IndexerNext]_vars

(***************************************************************************)
(* The extractor that builds ComponentInfo records (extractComponents with *)
(* parseFile and record): one call for one file.                           *)
(***************************************************************************)
\* whether a visitor of this extractor records the node
RecognizedInfo(node) ==
  IF node.type = "FunctionDeclaration" THEN isCapitalized(node.name)
  ELSE IF node.type = "VariableDeclarator"
  THEN isCapitalized(node.name) /\ node.init = "ArrowFunctionExpression"
  ELSE isCapitalized(node.name)

\* parseFile, then the traversal pushing record(name, kind, ...) per node
extractComponentInfo(file) ==
  IF ~file.readable \/ ~file.source.parses THEN <<>>
  ELSE LET pushed == SelectSeq(file.source.nodes, RecognizedInfo)
       IN  [i \in 1..Len(pushed) |->
             [id |-> <<file.rel, "#", pushed[i].name>>,
              filePath |-> file.rel,
              name |-> pushed[i].name,
              kind |-> IF pushed[i].type = "FunctionDeclaration" THEN "function"
                       ELSE IF pushed[i].type = "VariableDeclarator" THEN "arrow"
                       ELSE "class"]]

\* declarations a file can hold
NodeChoices ==
  { Node("FunctionDeclaration", <<"A">>, TRUE, "none", "none", "none", FALSE, <<3>>),
    Node("FunctionDeclaration", <<"A">>, FALSE, "none", "none", "none", FALSE, <<2>>),
    Node("FunctionDeclaration", <<"a">>, TRUE, "none", "none", "none", FALSE, <<3>>),
    Node("VariableDeclarator", <<"A">>, TRUE, "ArrowFunctionExpression", "none", "none",
         FALSE, <<1>>),
    Node("VariableDeclarator", <<"B">>, TRUE, "FunctionExpression", "none", "none",
         FALSE, <<4>>),
    Node("ClassDeclaration", <<"B">>, TRUE, "none", "Component", "method", FALSE, <<9>>),
    Node("ClassDeclaration", <<"C">>, TRUE, "none", "React.Component", "method", TRUE,
         <<9>>) }

ExtractInit ==
  /\ exPc = "start"
  /\ exFile \in { SourceFile(<<"src", "/", "App.tsx">>, readable, FALSE, parses, nodes) :
                    readable \in BOOLEAN, parses \in BOOLEAN,
                    nodes \in UNION { [1..n -> NodeChoices] : n \in 0..MaxNodes } }
  /\ exOut = <<>>
  /\ ServerIdle(<<>>) /\ CliIdle /\ EmbedIdle /\ IndexerIdle /\ LoadIdle /\ UiIdle

\* extractComponents(filePath)
Extract ==
  /\ exPc = "start"
  /\ exOut' = extractComponentInfo(exFile)
  /\ exPc' = "done"
  /\ UNCHANGED exFile
  /\ UNCHANGED <<serverVars, cliVars, embedVars, indexerVars, loadVars, uiVars>>

SpecExtract == ExtractInit /\ [][Extract]_vars

(***************************************************************************)
(* DevGuideExplorer.tsx: the explorer.                                     *)
(*                                                                         *)
(* doSearch and doAnswer run from their call to the await of fetch in one  *)
(* step, and from the settling of the request (the response and the        *)
(* reading of its body, or the rejection) through catch and finally in     *)
(* another.  A button is clicked only while its disabled attribute is      *)
(* off; the attribute is the flag as of the last handler that ran.         *)
(***************************************************************************)
\* the flag kept when the request succeeded and cleared when it failed
FlagClearedInCatch(ok) == ok

\* finally { setSearching(false) } and finally { setAnswering(false) }
FlagAfterFinally(ok) == FALSE

\* doSearch up to `await fetch(searchUrl)`: called by the mount effect, and
\* by a click on the Search button, which is disabled while searching
doSearch(trigger) ==
  /\ IF trigger = "effect" THEN uiPc = "rendered"
     ELSE uiPc = "mounted" /\ ~uiSearching
  /\ uiPc' = "mounted"
  /\ uiError' = ""
  /\ uiAnswer' = [answer |-> "", used |-> <<>>]
  /\ uiSearching' = TRUE
  /\ uiSearches' = uiSearches + 1
  /\ UNCHANGED <<uiAnswering, uiAnswers, uiResults>>
  /\ UNCHANGED <<serverVars, cliVars, embedVars, indexerVars, loadVars, extractVars>>

\* doAnswer up to `await fetch(answerUrl)`: a click on the Answer button,
\* which is disabled while answering
doAnswer ==
  /\ uiPc = "mounted" /\ ~uiAnswering
  /\ uiError' = ""
  /\ uiAnswer' = [answer |-> "", used |-> <<>>]
  /\ uiAnswering' = TRUE
  /\ uiAnswers' = uiAnswers + 1
  /\ UNCHANGED <<uiPc, uiSearching, uiSearches, uiResults>>
  /\ UNCHANGED <<serverVars, cliVars, embedVars, indexerVars, loadVars, extractVars>>

\* doSearch from the settling of its request: setResults(json.results), or
\* the catch with the message of what was thrown; then the finally
SearchSettles(ok, results, message) ==
  /\ uiSearches > 0
  /\ uiSearches' = uiSearches - 1
  /\ uiResults' = IF ok THEN results ELSE uiResults
  /\ uiError' = IF ok THEN uiError ELSE message
  /\ uiSearching' = FlagAfterFinally(ok)
  /\ UNCHANGED <<uiPc, uiAnswering, uiAnswers, uiAnswer>>
  /\ UNCHANGED <<serverVars, cliVars, embedVars, indexerVars, loadVars, extractVars>>

\* doAnswer from the settling of its request: setAnswer(json.answer) and
\* setUsed(json.used || []), or the catch; then the finally
AnswerSettles(ok, answer, used, message) ==
  /\ uiAnswers > 0
  /\ uiAnswers' = uiAnswers - 1
  /\ uiAnswer' = IF ok THEN [answer |-> answer, used |-> used] ELSE uiAnswer
  /\ uiError' = IF ok THEN uiError ELSE message
  /\ uiAnswering' = FlagAfterFinally(ok)
  /\ UNCHANGED <<uiPc, uiSearching, uiSearches, uiResults>>
  /\ UNCHANGED <<serverVars, cliVars, embedVars, indexerVars, loadVars, extractVars>>

UiNext ==
  \/ \E trigger \in {"effect", "click"} : doSearch(trigger)
  \/ doAnswer
  \/ \E results \in {<<>>, <<"A">>, <<"B", "A">>, <<"A", "B", "C">>} : SearchSettles(TRUE, results, "")
  \/ \E message \in {"Search failed: Bad Request", "Failed to fetch"} :
       SearchSettles(FALSE, <<>>, message)
  \/ \E answer \in {"", "text"}, used \in {<<>>, <<"A">>, <<"B", "A">>} :
       AnswerSettles(TRUE, answer, used, "")
  \/ \E message \in {"Answer failed: Internal Server Error", "Failed to fetch"} :
       AnswerSettles(FALSE, "", <<>>, message)

\* the component as first rendered, before its mount effect runs
UiInit ==
  /\ UiIdle
  /\ ServerIdle(<<>>) /\ CliIdle /\ EmbedIdle /\ IndexerIdle
  /\ LoadIdle /\ ExtractIdle

SpecUi == UiInit /\ [][UiNext]_vars

(***************************************************************************)
(* Properties of the server.                                               *)
(***************************************************************************)
\* requests whose ranking has been computed
Ranked(r) ==
  \/ req[r].route = "search" /\ pc[r] = "done" /\ resp[r].status = 200
  \/ req[r].route = "answer" /\ pc[r] = "genWait"
  \/ req[r].route = "answer" /\ pc[r] = "done" /\ embedOutcome[r] = "ok"

\* the first position of a record in the loaded index
IndexPos(c) ==
  CHOOSE i \in 1..Len(INDEX) :
    /\ INDEX[i].name = c.name /\ INDEX[i].file = c.file
    /\ \A j \in 1..(i - 1) : ~(INDEX[j].name = c.name /\ INDEX[j].file = c.file)

InPool(c, p) == \E i \in 1..Len(p) : p[i].name = c.name /\ p[i].file = c.file

\* an empty pool yields no record; otherwise the count is min(k, |pool|)
RankedAsClaimed(r) ==
  /\ IF pool[r] = <<>> THEN ranked[r] = <<>>
     ELSE MathMin(TopKOf(req[r]), Num(Len(pool[r]))) = Num(Len(ranked[r]))
  /\ \A i \in 1..Len(ranked[r]) : InPool(ranked[r][i], pool[r])
  /\ \A i, j \in 1..Len(ranked[r]) :
       i < j =>
         /\ NumLe(ranked[r][j].score, ranked[r][i].score)
         /\ ranked[r][i].score = ranked[r][j].score
              => IndexPos(ranked[r][i]) < IndexPos(ranked[r][j])

\* C1: the ranked result holds exactly min(k, |pool|) records of the pool,
\* in descending score order, equal scores in index order
C1_RankedTopK ==
  \A r \in Requests :
    Ranked(r) =>
      RankedAsClaimed(r)

\* C1 restricted to an integer k and to scores that are numbers
C1_WhenKAndScoresAreNumbers ==
  \A r \in Requests :
    (/\ Ranked(r)
     /\ IsInteger(TopKOf(req[r]))
     /\ \A i \in 1..Len(INDEX) : Len(INDEX[i].embedding) = 2) =>
      RankedAsClaimed(r)

\* the scope predicates as the specification words them
UnderExamples(file) == \E i \in 1..(Len(file) - 1) : file[i] = "examples" /\ file[i + 1] = "/"

UnderLibrary(file) ==
  \E i \in 1..(Len(file) - 2) :
    file[i] = "packages" /\ file[i + 1] = "/" /\ file[i + 2] = "react-router"

MatchesScope(scope, file) ==
  IF scope = "examples" THEN UnderExamples(file) ELSE UnderLibrary(file)

\* C2: under scope "examples" or "src" the reported count is the number of
\* index records whose path matches the scope, whatever topK is, and only
\* matching records appear in the results, the context and the used list
C2_ScopeBeforeRanking ==
  \A r \in Requests :
    req[r].scope \in {"examples", "src"} =>
      /\ (req[r].route = "search" /\ resp[r].status = 200) =>
           /\ resp[r].count =
                Cardinality({i \in 1..Len(INDEX) : MatchesScope(req[r].scope, INDEX[i].file)})
           /\ \A i \in 1..Len(resp[r].results) :
                MatchesScope(req[r].scope, resp[r].results[i].file)
      /\ req[r].route = "answer" =>
           /\ \A i \in 1..Len(prompt[r].context) :
                MatchesScope(req[r].scope, prompt[r].context[i].file)
           /\ \A i \in 1..Len(resp[r].used) :
                MatchesScope(req[r].scope, resp[r].used[i].file)

\* a scoped search answered with a pool smaller than the index, and a
\* scoped answer that used a record
C2_Witness ==
  \E r \in Requests :
    /\ req[r].scope = "src"
    /\ \/ /\ req[r].route = "search" /\ resp[r].status = 200
          /\ resp[r].count > 0 /\ resp[r].count < Len(INDEX)
          /\ Len(resp[r].results) > 0
       \/ /\ req[r].route = "answer" /\ resp[r].status = 200
          /\ Len(resp[r].used) > 0 /\ Len(pool[r]) < Len(INDEX)

\* C3: the effective k is an integer between 1 and the route's maximum
C3_EffectiveKInRange ==
  \A r \in Requests :
    req[r].route \in {"search", "answer"} =>
      LET k == TopKOf(req[r])
          max == IF req[r].route = "search" THEN SearchMaxK ELSE AnswerMaxK
      IN  IsInteger(k) /\ NumLe(Num(MinK), k) /\ NumLe(k, Num(max))

\* C5: when the embedding call of a request has failed, the request has
\* ended with an error response, nothing was ranked, no answer is returned
\* and the generation backend was not called
C5_EmbedFailureAborts ==
  \A r \in Requests :
    embedOutcome[r] \in EmbedFailures =>
      /\ pc[r] = "done"
      /\ resp[r].status = 500 /\ resp[r].error # ""
      /\ ranked[r] = <<>> /\ resp[r].results = <<>> /\ resp[r].used = <<>>
      /\ ~resp[r].hasAnswer
      /\ genCalls[r] = 0

C5_Witness ==
  \E r \in Requests :
    /\ req[r].route = "answer" /\ embedOutcome[r] = "no_embedding"
    /\ pc[r] = "done" /\ Len(pool[r]) > 0

\* C6: a failed generation call (non-2xx, network error, malformed body)
\* ends the request with an error; the call is issued at most once; an
\* answer is returned only when the call succeeded
C6_GenerationFailureAborts ==
  \A r \in Requests :
    /\ genCalls[r] <= 1
    /\ genOutcome[r] \in GenFailures \cup {"no_response"} =>
         resp[r].status = 500 /\ ~resp[r].hasAnswer
    /\ resp[r].hasAnswer => genOutcome[r] = "ok"

\* C7: once the timeout of a pending backend call has expired the call is
\* no longer pending
C7_TimeoutAbortsCall ==
  \A r \in Requests : aborted[r] => pc[r] \notin {"embedWait", "genWait"}

(***************************************************************************)
(* Properties of the command-line search.                                  *)
(***************************************************************************)
Blank(str) == \A i \in 1..Len(str) : str[i] = " "

\* C4: a query that is empty or only white space is rejected with an error
\* and no call to a backend is issued for it
C4_EmptyQueryRejectedBeforeBackend ==
  /\ \A r \in Requests :
       (req[r].route \in {"search", "answer"} /\ Blank(req[r].q)) =>
         /\ pc[r] = "done" /\ resp[r].status = 400
         /\ embedCalls[r] = 0 /\ genCalls[r] = 0
  /\ (cliPc # "start" /\ Blank(JoinSpace(cliArgv))) =>
       cliExit = 1 /\ cliEmbedCalls = 0

(***************************************************************************)
(* Properties of the embedding provider.                                   *)
(***************************************************************************)
NetworkBackend == provider(emEnv) = "ollama" \/ (provider(emEnv) = "openai" /\ emEnv.sdk)

\* C8: with a network backend, an item whose backend call failed gets its
\* fallback vector, and every item whose own call succeeded gets the
\* backend's vector, whatever happened to the other items
C8_FallbackPerItem ==
  (emPc = "done" /\ NetworkBackend) =>
    \A i \in 1..Len(emReplies) :
      /\ i <= Len(emOut)
      /\ emReplies[i] # "ok" => emOut[i] = pseudoEmbedding(emTexts[i], FALLBACK_DIM)
      /\ emReplies[i] = "ok" => emOut[i] = BackendVector(emTexts[i], emDim)

\* C9: embed returns one vector per input, the i-th for the i-th input, all
\* of one dimension
C9_OneVectorPerInput ==
  emPc = "done" =>
    /\ Len(emOut) = Len(emTexts)
    /\ \A i \in 1..Len(emOut) :
         /\ emOut[i].kind = "vector"
         /\ emOut[i] \in { pseudoEmbedding(emTexts[i], FALLBACK_DIM),
                            BackendVector(emTexts[i], emDim) }
    /\ \A i, j \in 1..Len(emOut) : emOut[i].dim = emOut[j].dim

(***************************************************************************)
(* Properties of the indexing run.                                         *)
(***************************************************************************)
Persisted(name, rel) ==
  \E k \in 1..Len(ixWritten.components) :
    ixWritten.components[k].name = name /\ ixWritten.components[k].file = rel

\* C10: the run ends with the index written, and every component that
\* extraction produced is in it with an embedding, whichever embedding
\* calls failed
C10_EveryComponentPersisted ==
  ixPc = "exit" =>
    /\ ixWritten.done
    /\ \A i \in 1..Len(ixFiles) :
         \A j \in 1..Len(FileComponents(ixFiles[i])) :
           Persisted(FileComponents(ixFiles[i])[j].name, ixFiles[i].rel)
    /\ \A k \in 1..Len(ixWritten.components) :
         ixWritten.components[k].embedding.kind = "vector"

(***************************************************************************)
(* Properties of the similarity.                                           *)
(***************************************************************************)
\* C19: every score the server computes is a number, never NaN
C19_ScoreIsNeverNaN ==
  \A r \in DOMAIN ranked :
    /\ \A i \in 1..Len(ranked[r]) : ~IsNaN(ranked[r][i].score)
    /\ \A i \in 1..Len(resp[r].results) : ~IsNaN(resp[r].results[i].score)
    /\ \A i \in 1..Len(resp[r].used) : ~IsNaN(resp[r].used[i].score)

\* the command-line similarity is total and symmetric over the loaded records
CosineSimilarityTotalSymmetric ==
  \A i, j \in 1..Len(cliComponents) :
    LET a == cliComponents[i].embedding
        b == cliComponents[j].embedding
    IN  /\ ~IsNaN(cosineSimilarity(a, b))
        /\ cosineSimilarity(a, b) = cosineSimilarity(b, a)

(***************************************************************************)
(* Properties of the answer prompt.                                        *)
(***************************************************************************)
\* requests of /answer whose prompt has been assembled
Prompted(r) ==
  /\ req[r].route = "answer"
  /\ pc[r] \in {"genWait", "done"}
  /\ embedOutcome[r] = "ok"

\* C16 as stated: the context of the prompt and the list `used` hold the
\* ranked records, each once and in ranked order, each with its name, file
\* and score
C16_ContextAndUsedCarryScore ==
  \A r \in DOMAIN pc :
    Prompted(r) =>
      /\ Len(prompt[r].context) = Len(ranked[r])
      /\ \A i \in 1..Len(ranked[r]) :
           /\ prompt[r].context[i].n = i
           /\ prompt[r].context[i].name = ranked[r][i].name
           /\ prompt[r].context[i].file = ranked[r][i].file
           /\ "score" \in DOMAIN prompt[r].context[i]
           /\ prompt[r].context[i].score = ranked[r][i].score
      /\ (pc[r] = "done" /\ resp[r].status = 200) =>
           /\ Len(resp[r].used) = Len(ranked[r])
           /\ \A i \in 1..Len(ranked[r]) :
                /\ resp[r].used[i].name = ranked[r][i].name
                /\ resp[r].used[i].file = ranked[r][i].file
                /\ resp[r].used[i].score = ranked[r][i].score

\* C16 amended: the context of the prompt and the list `used` hold the
\* ranked records, each once and in ranked order: the context with
\* position, name and file and without the score, `used` with name, file
\* and score
C16_ContextAndUsedCoverRanked ==
  \A r \in DOMAIN pc :
    Prompted(r) =>
      /\ Len(prompt[r].context) = Len(ranked[r])
      /\ \A i \in 1..Len(ranked[r]) :
           /\ prompt[r].context[i].n = i
           /\ prompt[r].context[i].name = ranked[r][i].name
           /\ prompt[r].context[i].file = ranked[r][i].file
           /\ "score" \notin DOMAIN prompt[r].context[i]
      /\ (pc[r] = "done" /\ resp[r].status = 200) =>
           /\ Len(resp[r].used) = Len(ranked[r])
           /\ \A i \in 1..Len(ranked[r]) :
                /\ resp[r].used[i].name = ranked[r][i].name
                /\ resp[r].used[i].file = ranked[r][i].file
                /\ resp[r].used[i].score = ranked[r][i].score

\* an answer sent for two ranked records that are not in index order
C16_Witness ==
  \E r \in DOMAIN pc :
    /\ Prompted(r) /\ pc[r] = "done" /\ resp[r].status = 200
    /\ Len(resp[r].used) = 2
    /\ IndexPos(ranked[r][2]) < IndexPos(ranked[r][1])

\* characters of code the prompt carries
ExcerptChars(context) ==
  Sum([i \in 1..Len(context) |-> CodeLength(context[i].code.text)])

\* every excerpt is the first 700 characters of its record's code at most,
\* and is marked exactly when the code was longer
ExcerptsCapped(r) ==
  \A i \in 1..Len(prompt[r].context) :
    LET code == ranked[r][i].code
        cut  == prompt[r].context[i].code
    IN  /\ CodeLength(cut.text) <= ContextMaxChars
        /\ CodeLength(cut.text) =
             (IF CodeLength(code) <= ContextMaxChars THEN CodeLength(code)
              ELSE ContextMaxChars)
        /\ cut.marker <=> (CodeLength(code) > ContextMaxChars)

\* the per-record part of C17 on its own
C17_ExcerptsCapped ==
  \A r \in DOMAIN pc : Prompted(r) => ExcerptsCapped(r)

\* C17: every excerpt is capped and marked when cut, and the code carried
\* by the whole prompt stays within the configured context budget
C17_PromptWithinBudget ==
  \A r \in DOMAIN pc :
    Prompted(r) =>
      /\ ExcerptsCapped(r)
      /\ ExcerptChars(prompt[r].context) <= NumCtx

(***************************************************************************)
(* Properties of the fallback embedding.                                   *)
(***************************************************************************)
\* a pair of 16-bit halves, that is a value in 0 .. 2^32 - 1
IsUint32(h) == h[1] \in 0..(Half - 1) /\ h[2] \in 0..(Half - 1)

\* FNV-1a (32 bit) of the texts embedded, from the published test vectors
\* ("" -> 811c9dc5, "a" -> e40c292c, "ab" -> 4d2505ca)
ReferenceHash(s) ==
  IF s = <<>> THEN <<33052, 40389>>
  ELSE IF s = <<"a">> THEN <<58380, 10540>>
  ELSE <<19749, 1482>>

\* C18: a fallback vector depends on its text alone: it has FALLBACK_DIM
\* coordinates, its hash is the FNV-1a hash of the text whatever its place
\* in the batch, the provider and the other items are, equal texts get
\* equal vectors, and the hash is a 32-bit unsigned value after every
\* character
C18_FallbackDeterministic ==
  \A i \in 1..Len(emOut) :
    emOut[i].src = "fallback" =>
      /\ emOut[i].kind = "vector"
      /\ emOut[i].dim = FALLBACK_DIM
      /\ Len(Phases(emOut[i])) = FALLBACK_DIM
      /\ emOut[i].h = ReferenceHash(emTexts[i])
      /\ \A j \in 1..Len(emOut) :
           (emOut[j].src = "fallback" /\ emTexts[j] = emTexts[i]) => emOut[j] = emOut[i]
      /\ \A n \in 0..Len(emTexts[i]) : IsUint32(FnvHash(SubSeq(emTexts[i], 1, n)))

\* one call that fell back twice for the same two-character text, after
\* two different failures
C18_Witness ==
  /\ emPc = "done"
  /\ Len(emOut) = 2 /\ Len(emReplies) = 2
  /\ emTexts[1] = <<"a", "b">> /\ emTexts[2] = <<"a", "b">>
  /\ emOut[1].src = "fallback" /\ emOut[2].src = "fallback"
  /\ emReplies[1] # emReplies[2]

(***************************************************************************)
(* Properties of the loaded index.                                         *)
(***************************************************************************)
\* C12: no step of any request handler changes the loaded index: the same
\* records in the same order with the same fields
C12_IndexImmutable == [][INDEX' = INDEX]_vars

\* a ranking that is not in index order has been computed over the whole
\* index for one client while the request of the other client failed
C12_Witness ==
  \E r, o \in DOMAIN pc :
    /\ r # o
    /\ pc[r] = "genWait" /\ PoolIsIndex(ScopeOf(req[r].scope))
    /\ Len(ranked[r]) = 2 /\ IndexPos(ranked[r][2]) < IndexPos(ranked[r][1])
    /\ pc[o] = "done" /\ resp[o].status = 500

(***************************************************************************)
(* Properties of loading the index.                                        *)
(***************************************************************************)
\* the entries of a file in one of the two forms: a bare array, or a
\* document with a components array
FileEntries(file) ==
  IF ~file.exists \/ file.form # "json" THEN <<>>
  ELSE IF file.value.type = "array" THEN file.value.items
  ELSE IF file.value.type = "object" /\ file.value.componentsIsArray
       THEN file.value.components
  ELSE <<>>

HasValidRecord(file) == \E i \in 1..Len(FileEntries(file)) : ValidEntry(FileEntries(file)[i])

\* missing, empty, or without any structurally valid record
Unloadable(file) ==
  \/ ~file.exists
  \/ file.form = "blank"
  \/ /\ ~HasValidRecord(file)
     /\ \A i \in 1..Len(file.lines) : ~(file.lines[i].json /\ ValidEntry(file.lines[i].value))

\* the command line's loader: a file of either form with a valid record is
\* loaded, an unloadable one ends the run before the query is embedded, and
\* what is loaded is the valid records of the file
CliLoadAsClaimed ==
  (cliPc # "start" /\ JoinSpace(cliArgv) # <<>>) =>
    /\ HasValidRecord(cliFile) =>
         cliComponents = EntryRecords(SelectSeq(FileEntries(cliFile), ValidEntry))
    /\ Unloadable(cliFile) => (cliExit = 1 /\ cliEmbedCalls = 0 /\ cliComponents = <<>>)

\* the server's loader: the same, the records served being those of INDEX
ServerLoadAsClaimed ==
  srvPc # "start" =>
    /\ HasValidRecord(srvFile) =>
         (srvPc = "listening" /\ INDEX.type = "array" /\ Len(INDEX.items) > 0)
    /\ Unloadable(srvFile) => srvPc = "exit"
    /\ srvPc = "listening" =>
         \A i \in 1..Len(INDEX.items) : ValidEntry(INDEX.items[i])

\* the command-line half of C11 on its own
C11_CliLoad == CliLoadAsClaimed

\* C11: both loaders accept a bare array and a document with a components
\* array, end the process before anything is served when the file is
\* missing, empty or without a valid record, and serve valid records only
C11_LoadAcceptsOrFails == CliLoadAsClaimed /\ ServerLoadAsClaimed

(***************************************************************************)
(* Properties of extraction.                                               *)
(***************************************************************************)
\* a capitalized declaration with markup where the rule looks for it: in
\* the subtree of a function or of a function-valued variable, in the
\* render method of a class extending a component base
HasMarkup(node) ==
  /\ isCapitalized(node.name)
  /\ IF node.type = "ClassDeclaration"
     THEN ExtendsReact(node.superClass) /\ node.render = "method" /\ node.renderJSX
     ELSE IF node.type = "VariableDeclarator"
     THEN node.init \in {"ArrowFunctionExpression", "FunctionExpression"} /\ node.jsx
     ELSE node.jsx

\* the name is declared in the file by a declaration with markup
DeclaredWithMarkup(file, name) ==
  \E i \in 1..Len(file.source.nodes) :
    file.source.nodes[i].name = name /\ HasMarkup(file.source.nodes[i])

\* C13: every record extraction returns stands for a capitalized
\* declaration with markup in the relevant subtree
C13_NoMarkupNoRecord ==
  exPc = "done" =>
    \A i \in 1..Len(exOut) : DeclaredWithMarkup(exFile, exOut[i].name)

\* C13 for the extraction of the indexing run
C13_IndexerNoMarkupNoRecord ==
  /\ \A i \in 1..Len(ixComps) : DeclaredWithMarkup(ixFiles[ixFile], ixComps[i].name)
  /\ \A k \in 1..Len(ixAll) :
       \E f \in 1..Len(ixFiles) :
         ixFiles[f].rel = ixAll[k].file /\ DeclaredWithMarkup(ixFiles[f], ixAll[k].name)

\* C14: extraction returns one record per name at most, so the ids of the
\* records are distinct
C14_OneRecordPerName ==
  exPc = "done" =>
    \A i, j \in 1..Len(exOut) :
      i # j => (exOut[i].name # exOut[j].name /\ exOut[i].id # exOut[j].id)

\* C14 for the extraction of the indexing run: one record per name, with
\* the code of the first declaration recognized under that name
C14_IndexerOneRecordPerName ==
  /\ \A i, j \in 1..Len(ixComps) : i # j => ixComps[i].name # ixComps[j].name
  /\ \A i \in 1..Len(ixComps) :
       LET nodes == ixFiles[ixFile].source.nodes
           first == CHOOSE n \in 1..Len(nodes) :
                      /\ nodes[n].name = ixComps[i].name /\ HasMarkup(nodes[n])
                      /\ \A m \in 1..(n - 1) :
                           ~(nodes[m].name = ixComps[i].name /\ HasMarkup(nodes[m]))
       IN  ixComps[i].code = nodes[first].code
  /\ \A k, l \in 1..Len(ixAll) :
       k # l => <<ixAll[k].file, ixAll[k].name>> # <<ixAll[l].file, ixAll[l].name>>

\* a file that cannot be read or does not parse
Failing(file) == ~file.readable \/ ~file.source.parses

\* the number of components the files at positions i.. yield
RECURSIVE CandidateCount(_, _)
CandidateCount(files, i) ==
  IF i > Len(files) THEN 0
  ELSE (IF Failing(files[i]) \/ files[i].source.empty THEN 0
        ELSE Len(extractComponents(files[i].source)))
       + CandidateCount(files, i + 1)

\* the extractor of ComponentInfo records returns nothing for a file that
\* cannot be read or parsed
FailingFileYieldsNothing ==
  (exPc = "done" /\ Failing(exFile)) => exOut = <<>>

\* C15: the run ends with the index written; no record comes from a file
\* that cannot be read or parsed; every component of every other file was
\* embedded and written or warned about; and when no embedding failed, the
\* components of every other file are all written, whatever files fail
\* around it
C15_FailingFileSkipped ==
  ixPc = "exit" =>
    /\ ixWritten.done
    /\ \A k \in 1..Len(ixWritten.components) :
         \E f \in 1..Len(ixFiles) :
           /\ ixFiles[f].rel = ixWritten.components[k].file
           /\ ~Failing(ixFiles[f])
           /\ DeclaredWithMarkup(ixFiles[f], ixWritten.components[k].name)
    /\ Len(ixWritten.components) + ixWarned = CandidateCount(ixFiles, 1)
    /\ ixWarned = 0 =>
         \A f \in 1..Len(ixFiles) :
           \A n \in 1..Len(ixFiles[f].source.nodes) :
             (/\ ~Failing(ixFiles[f]) /\ ~ixFiles[f].source.empty
              /\ HasMarkup(ixFiles[f].source.nodes[n])) =>
               Persisted(ixFiles[f].source.nodes[n].name, ixFiles[f].rel)

\* a run over a file that does not parse followed by a file with a
\* component, ended with that component written
C15_Witness ==
  /\ ixPc = "exit" /\ ixWarned = 0
  /\ Len(ixFiles) = 2
  /\ Failing(ixFiles[1]) /\ ~Failing(ixFiles[2])
  /\ Len(ixWritten.components) > 0

(***************************************************************************)
(* Properties of the explorer.                                             *)
(***************************************************************************)
\* C20: `searching` is true exactly while a doSearch request is in flight
\* and `answering` exactly while a doAnswer request is in flight, so with
\* no request in flight both flags are false and both buttons are enabled
C20_FlagsFollowRequests ==
  /\ uiSearching <=> uiSearches > 0
  /\ uiAnswering <=> uiAnswers > 0
  /\ uiSearches \in {0, 1} /\ uiAnswers \in {0, 1}

\* a search failed while an answer was still in flight: `searching` is
\* reset and `answering` still set
C20_Witness ==
  /\ uiPc = "mounted"
  /\ uiError = "Search failed: Bad Request"
  /\ ~uiSearching /\ uiSearches = 0
  /\ uiAnswering /\ uiAnswers = 1

====
